---- MODULE Spec2Model ----
(***************************************************************************)
(* Model of weather_bot_pyside6_v700.py: the Storage class (cache,         *)
(* history, settings files), the FetchWorker thread and the WeatherApp     *)
(* handlers that decide between a cache hit and a network fetch.           *)
(*                                                                         *)
(* Text is a sequence of one-character strings so that str.strip() and     *)
(* str.lower() are computed, not assumed.  Time is in whole seconds.       *)
(* Coordinates are integers in units of 1e-5 degree.                       *)
(***************************************************************************)
EXTENDS Integers, Sequences, FiniteSets, TLC

VARIABLES
    now,            \* datetime.utcnow().timestamp(), in seconds
    settings,       \* Storage.settings (units, show_aqi, cache_ttl_minutes, favorites)
    cache,          \* Storage.cache: key -> [ts, data]
    history,        \* Storage.history
    cacheFile,      \* contents of CACHE_FILE
    historyFile,    \* contents of HISTORY_FILE
    settingsFile,   \* contents of SETTINGS_FILE
    city_edit,      \* text of WeatherApp.city_edit
    current_city,   \* WeatherApp.current_city
    current_geo,    \* WeatherApp.current_geo
    current_weather,\* WeatherApp.current_weather
    current_aqi,    \* WeatherApp.current_aqi
    btn_search,     \* WeatherApp.btn_search.isEnabled()
    workers,        \* running FetchWorker threads: id -> thread state
    queue,          \* signals queued to the main thread, oldest first
    nextId,         \* number of FetchWorkers created so far
    ip_thread,      \* TRUE while the IpCityWorker has not reported
    events,         \* number of user events so far
    doneMax,        \* highest FetchWorker id whose done signal was handled, -1 if none
    ret,            \* value returned by the last Storage.get_cached call
    lastOp          \* the handler or call that ran last, with its outcome

vars == <<now, settings, cache, history, cacheFile, historyFile, settingsFile,
          city_edit, current_city, current_geo, current_weather, current_aqi,
          btn_search, workers, queue, nextId, ip_thread, events, doneMax, ret, lastOp>>

storageVars == <<settings, cache, history, cacheFile, historyFile, settingsFile>>
appVars == <<city_edit, current_city, current_geo, current_weather, current_aqi,
             btn_search, workers, queue, nextId, ip_thread, doneMax>>

----------------------------------------------------------------------------
(* Bounds *)

StartTime == 1          \* clock value at start-up (a timestamp is never 0)
MaxWorkers == 2         \* FetchWorkers alive at the same time
MaxFetches == 2         \* FetchWorkers created in one run
MaxUserEvents == 3      \* user events in one run of an impatient user
MaxNames == 22          \* distinct place names given to the history and favourites calls

----------------------------------------------------------------------------
(* Program constants *)

GeoTtlMinutes == 1440
AqiTtlMinutes == 60
DefaultTtlMinutes == 20
HistoryCap == 20
FavoritesCap == 20

----------------------------------------------------------------------------
(* Python values *)

None == [kind |-> "None"]
EmptyDict == [kind |-> "dict"]
EmptyStr == << >>

\* bool(x) for a dict or None: None and {} are falsy
Truthy(x) == x # None /\ x # EmptyDict

\* bool(s) for a string: "" is falsy
TruthyStr(s) == s # EmptyStr

\* str.lower() on one character
LowerChar(c) ==
    CASE c = "A" -> "a"
      [] c = "B" -> "b"
      [] OTHER -> c

lower(s) == [i \in 1..Len(s) |-> LowerChar(s[i])]

IsSpace(c) == c = " "

RECURSIVE lstrip(_)
lstrip(s) ==
    IF s = << >> THEN s
    ELSE IF IsSpace(Head(s)) THEN lstrip(Tail(s)) ELSE s

RECURSIVE rstrip(_)
rstrip(s) ==
    IF s = << >> THEN s
    ELSE IF IsSpace(s[Len(s)]) THEN rstrip(SubSeq(s, 1, Len(s) - 1)) ELSE s

strip(s) == rstrip(lstrip(s))

\* the elements of a list
Elems(lst) == {lst[i] : i \in 1..Len(lst)}

Abs(x) == IF x < 0 THEN -x ELSE x

\* the formatting that cuts the digits after the fourth decimal
Fmt4Truncating(x) == <<x < 0, Abs(x) \div 10>>

\* f"{x:.4f}" for x in 1e-5 degree: the sign and the magnitude rounded to
\* the nearest multiple of 1e-4 degree; -0.00004 gives "-0.0000"
\* (no modelled coordinate ends in the digit 5, so no tie arises)
Fmt4(x) == <<x < 0, (Abs(x) + 5) \div 10>>

----------------------------------------------------------------------------
(* Files *)

\* A file is [kind, value]: kind "json" for a file that json.load reads,
\* "missing" for no file, "unreadable" for a file open() refuses, "corrupt"
\* for a file whose text is not JSON (value is then what its text held).
Json(v) == [kind |-> "json", value |-> v]

\* a load that returns whatever the file holds
_loadUnchecked(file, default) == file.value

\* Storage._load: the decoded file, the default on any exception
_load(file, default) == IF file.kind = "json" THEN file.value ELSE default

\* json.dump of the object into the file opened with "w"
save_settings(st) == Json(st)
save_cache(c) == Json(c)
save_history(h) == Json(h)

----------------------------------------------------------------------------
(* Cache keys *)

\* the geocode key without the lowercasing
GeoKeyCaseSensitive(city) == <<"geo", city>>

GeoKey(city) == <<"geo", lower(city)>>
WxKey(geo, units) == <<"wx", Fmt4(geo.lat), Fmt4(geo.lon), units>>
AqiKey(geo) == <<"aqi", Fmt4(geo.lat), Fmt4(geo.lon)>>

----------------------------------------------------------------------------
(* Storage *)

\* the comparison with >= in place of >
AgeExceedsAtBoundary(t, ts, ttl_minutes) == (t - ts) >= ttl_minutes * 60

\* age = (utcnow - ts) / 60.0 ; age > ttl_minutes
AgeExceeds(t, ts, ttl_minutes) == (t - ts) > ttl_minutes * 60

\* get_cached with the age test applied for every ttl, zero included
get_cachedAlwaysTested(c, t, key, ttl_minutes) ==
    IF key \notin DOMAIN c THEN None
    ELSE LET item == c[key] IN
         IF item.ts = 0 THEN None
         ELSE IF AgeExceeds(t, item.ts, ttl_minutes) THEN None
         ELSE item.data

get_cached(c, t, key, ttl_minutes) ==
    IF key \notin DOMAIN c THEN None
    ELSE LET item == c[key] IN
         IF item.ts = 0 THEN None
         ELSE IF ttl_minutes # 0 /\ AgeExceeds(t, item.ts, ttl_minutes) THEN None
         ELSE item.data

\* set_cached that keeps the timestamp of an entry it overwrites
set_cachedKeepTs(c, t, key, data) ==
    [k \in DOMAIN c \cup {key} |->
        IF k = key
        THEN [ts |-> IF key \in DOMAIN c THEN c[key].ts ELSE t, data |-> data]
        ELSE c[k]]

set_cached(c, t, key, data) ==
    [k \in DOMAIN c \cup {key} |->
        IF k = key THEN [ts |-> t, data |-> data] ELSE c[k]]

\* [c for c in self.history if c.lower() != city.lower()]
RECURSIVE FilterOtherCase(_, _)
FilterOtherCase(lst, city) ==
    IF lst = << >> THEN << >>
    ELSE IF lower(Head(lst)) # lower(city)
         THEN <<Head(lst)>> \o FilterOtherCase(Tail(lst), city)
         ELSE FilterOtherCase(Tail(lst), city)

Prefix(lst, n) == SubSeq(lst, 1, IF Len(lst) < n THEN Len(lst) ELSE n)

\* add_history that removes only the entries equal to city letter for letter
add_historyExactMatch(h, city) ==
    LET c == strip(city) IN
    IF ~TruthyStr(c) THEN h
    ELSE Prefix(<<c>> \o SelectSeq(h, LAMBDA e : e # c), HistoryCap)

\* add_history without the slice [:20]
add_historyUncapped(h, city) ==
    LET c == strip(city) IN
    IF ~TruthyStr(c) THEN h
    ELSE <<c>> \o FilterOtherCase(h, c)

\* add_history that puts the city at the end of the list
add_historyAtTail(h, city) ==
    LET c == strip(city) IN
    IF ~TruthyStr(c) THEN h
    ELSE Prefix(FilterOtherCase(h, c) \o <<c>>, HistoryCap)

add_history(h, city) ==
    LET c == strip(city) IN
    IF ~TruthyStr(c) THEN h
    ELSE Prefix(<<c>> \o FilterOtherCase(h, c), HistoryCap)

clear_history(h) == << >>

\* add_favorite that compares ignoring letter case
add_favoriteIgnoringCase(favs, city) ==
    Prefix(IF \E c \in Elems(favs) : lower(c) = lower(city) THEN favs ELSE <<city>> \o favs,
           FavoritesCap)

\* the new value of settings["favorites"] after add_favorite(city)
add_favorite(favs, city) ==
    Prefix(IF city \notin Elems(favs) THEN <<city>> \o favs ELSE favs, FavoritesCap)

\* the new value of settings["favorites"] after remove_favorite(city)
remove_favorite(favs, city) == SelectSeq(favs, LAMBDA c : c # city)

----------------------------------------------------------------------------
(* Direct calls of the Storage API *)

NoCache == [k \in {} |-> None]

DefaultSettings ==
    [units |-> "metric", show_aqi |-> TRUE,
     cache_ttl_minutes |-> DefaultTtlMinutes, favorites |-> << >>]

\* payloads and keys used by the direct calls
GeoA == [kind |-> "geo", name |-> <<"A">>, lat |-> 3568922, lon |-> 5138897]
GeoB == [kind |-> "geo", name |-> <<"B">>, lat |-> 4885661, lon |-> 235222]

CallKeys == {GeoKey(<<"a">>), WxKey(GeoA, "metric")}
CallPayloads == {GeoA, EmptyDict}
CallTtls == {0, DefaultTtlMinutes}

\* offsets of the clock readings around the ttl boundary, in seconds
StorageOffsets ==
    {0, DefaultTtlMinutes * 60 - 1, DefaultTtlMinutes * 60,
     DefaultTtlMinutes * 60 + 1, GeoTtlMinutes * 60 + 1}

StorageTimes == {StartTime + d : d \in StorageOffsets}

InitIdle ==
    /\ now = StartTime
    /\ settings = DefaultSettings
    /\ cache = NoCache
    /\ history = << >>
    /\ cacheFile = Json(NoCache)
    /\ historyFile = Json(<< >>)
    /\ settingsFile = Json(DefaultSettings)
    /\ city_edit = EmptyStr
    /\ current_city = EmptyStr
    /\ current_geo = None
    /\ current_weather = None
    /\ current_aqi = None
    /\ btn_search = TRUE
    /\ workers = [i \in {} |-> None]
    /\ queue = << >>
    /\ nextId = 0
    /\ events = 0
    /\ doneMax = -1
    /\ ret = None
    /\ lastOp = [op |-> "init"]

InitStorage ==
    /\ InitIdle
    /\ ip_thread = FALSE

SetCachedCall(key, data) ==
    /\ cache' = set_cached(cache, now, key, data)
    /\ cacheFile' = save_cache(cache')
    /\ lastOp' = [op |-> "set_cached", key |-> key, data |-> data]
    /\ UNCHANGED <<now, settings, history, historyFile, settingsFile, ret, events>>
    /\ UNCHANGED appVars

GetCachedCall(key, ttl_minutes) ==
    /\ ret' = get_cached(cache, now, key, ttl_minutes)
    /\ lastOp' = [op |-> "get_cached", key |-> key, ttl |-> ttl_minutes]
    /\ UNCHANGED <<now, events>>
    /\ UNCHANGED storageVars
    /\ UNCHANGED appVars

StorageTick ==
    /\ \E t \in StorageTimes : t > now /\ now' = t
    /\ lastOp' = [op |-> "tick"]
    /\ UNCHANGED <<ret, events>>
    /\ UNCHANGED storageVars
    /\ UNCHANGED appVars

SetCachedStep == \E key \in CallKeys, data \in CallPayloads : SetCachedCall(key, data)
GetCachedStep == \E key \in CallKeys, ttl \in CallTtls : GetCachedCall(key, ttl)

NextStorage ==
    \/ SetCachedStep
    \/ GetCachedStep
    \/ StorageTick

SpecStorage == InitStorage /\ [][NextStorage]_vars

----------------------------------------------------------------------------
(* External services, as seen through http_get *)

\* status 0 stands for a request that raised (timeout, no connection)
GeoResponses(q) ==
    IF lower(q) = <<"a">>
    THEN {[status |-> 200, json |-> <<GeoA>>], [status |-> 500]}
    ELSE IF lower(q) = <<"b">>
    THEN {[status |-> 200, json |-> <<GeoB>>], [status |-> 200, json |-> << >>]}
    ELSE {[status |-> 404], [status |-> 0]}

WxResponses(lat, lon, units, t) ==
    {[status |-> 200,
      json |-> [kind |-> "wx", lat |-> lat, lon |-> lon, units |-> units, at |-> t]],
     [status |-> 0]}

AqiResponses(lat, lon, t) ==
    {[status |-> 200, json |-> [kind |-> "aqi", lat |-> lat, lon |-> lon, at |-> t]],
     [status |-> 500]}

http_get(resp) ==
    IF resp.status = 200 THEN [ok |-> TRUE, json |-> resp.json]
    ELSE IF resp.status = 404 THEN [ok |-> FALSE, err |-> "not found"]
    ELSE IF resp.status = 0 THEN [ok |-> FALSE, err |-> "request failed"]
    ELSE [ok |-> FALSE, err |-> "service error"]

----------------------------------------------------------------------------
(* FetchWorker *)

NoWorkers == [i \in {} |-> None]

FetchWorker(city, units, show_aqi) ==
    [city |-> city, units |-> units, show_aqi |-> show_aqi,
     pc |-> "geo", geo |-> None, wx |-> None]

Without(f, id) == [i \in DOMAIN f \ {id} |-> f[i]]

\* self.done.emit(...) followed by the thread's finished signal
EmitDone(id, geo, wx, aqi) ==
    LET w == workers[id] IN
    /\ queue' = queue \o
          <<[sig |-> "done", id |-> id, city |-> w.city, units |-> w.units,
             show_aqi |-> w.show_aqi, geo |-> geo, wx |-> wx, aqi |-> aqi],
            [sig |-> "finished", id |-> id]>>
    /\ workers' = Without(workers, id)

\* a worker that ends after an error without emitting failed
EmitFailedSilent(id, err) ==
    /\ queue' = queue \o <<[sig |-> "finished", id |-> id]>>
    /\ workers' = Without(workers, id)

\* self.failed.emit(str(e)) followed by the thread's finished signal
EmitFailed(id, err) ==
    LET w == workers[id] IN
    /\ queue' = queue \o
          <<[sig |-> "failed", id |-> id, city |-> w.city, err |-> err],
            [sig |-> "finished", id |-> id]>>
    /\ workers' = Without(workers, id)

workerFrame ==
    /\ UNCHANGED <<now, ret, city_edit, current_city, current_geo, current_weather,
                   current_aqi, btn_search, nextId, ip_thread, doneMax, events>>
    /\ UNCHANGED storageVars

RunGeocode(id) ==
    /\ id \in DOMAIN workers
    /\ workers[id].pc = "geo"
    /\ \E resp \in GeoResponses(workers[id].city) :
          LET g == http_get(resp) IN
          /\ IF ~g.ok THEN EmitFailed(id, g.err)
             ELSE IF g.json = << >> THEN EmitFailed(id, "no match")
             ELSE /\ workers' = [workers EXCEPT ![id].pc = "wx", ![id].geo = g.json[1]]
                  /\ queue' = queue
          /\ lastOp' = [op |-> "run", call |-> "geo", id |-> id, status |-> resp.status,
                        failed |-> (~g.ok \/ g.json = << >>)]
    /\ workerFrame

\* the forecast step that goes on to the air-quality request in every case
RunForecastAlwaysAqi(id) ==
    /\ id \in DOMAIN workers
    /\ workers[id].pc = "wx"
    /\ LET w == workers[id] IN
       \E resp \in WxResponses(w.geo.lat, w.geo.lon, w.units, now) :
          LET wx == http_get(resp) IN
          /\ IF ~wx.ok THEN EmitFailed(id, wx.err)
             ELSE IF TRUE
                  THEN /\ workers' = [workers EXCEPT ![id].pc = "aqi", ![id].wx = wx.json]
                       /\ queue' = queue
                  ELSE EmitDone(id, w.geo, wx.json, EmptyDict)
          /\ lastOp' = [op |-> "run", call |-> "wx", id |-> id, status |-> resp.status,
                        failed |-> ~wx.ok]
    /\ workerFrame

RunForecast(id) ==
    /\ id \in DOMAIN workers
    /\ workers[id].pc = "wx"
    /\ LET w == workers[id] IN
       \E resp \in WxResponses(w.geo.lat, w.geo.lon, w.units, now) :
          LET wx == http_get(resp) IN
          /\ IF ~wx.ok THEN EmitFailed(id, wx.err)
             ELSE IF w.show_aqi
                  THEN /\ workers' = [workers EXCEPT ![id].pc = "aqi", ![id].wx = wx.json]
                       /\ queue' = queue
                  ELSE EmitDone(id, w.geo, wx.json, EmptyDict)
          /\ lastOp' = [op |-> "run", call |-> "wx", id |-> id, status |-> resp.status,
                        failed |-> ~wx.ok]
    /\ workerFrame

RunAirQuality(id) ==
    /\ id \in DOMAIN workers
    /\ workers[id].pc = "aqi"
    /\ LET w == workers[id] IN
       \E resp \in AqiResponses(w.geo.lat, w.geo.lon, now) :
          LET a == http_get(resp) IN
          /\ EmitDone(id, w.geo, w.wx, IF a.ok THEN a.json ELSE EmptyDict)
          /\ lastOp' = [op |-> "run", call |-> "aqi", id |-> id, status |-> resp.status,
                        failed |-> ~a.ok]
    /\ workerFrame

----------------------------------------------------------------------------
(* WeatherApp handlers *)

\* on_fetch_done that writes the air-quality entry whenever show_aqi is set
on_fetch_doneStoringEmptyAqi(text, st, geo, wx, aqi) ==
    LET city == strip(text)
        c1 == set_cached(cache, now, GeoKey(city), geo)
        c2 == set_cached(c1, now, WxKey(geo, st.units), wx)
        c3 == IF st.show_aqi
              THEN set_cached(c2, now, AqiKey(geo), aqi)
              ELSE c2
    IN  /\ btn_search' = TRUE
        /\ cache' = c3
        /\ cacheFile' = save_cache(c3)
        /\ history' = add_history(history, city)
        /\ historyFile' = IF TruthyStr(city) THEN save_history(history') ELSE historyFile
        /\ current_city' = city
        /\ current_geo' = geo
        /\ current_weather' = wx
        /\ current_aqi' = aqi

\* on_fetch_done as run with the search field text and the settings st
on_fetch_done(text, st, geo, wx, aqi) ==
    LET city == strip(text)
        c1 == set_cached(cache, now, GeoKey(city), geo)
        c2 == set_cached(c1, now, WxKey(geo, st.units), wx)
        c3 == IF st.show_aqi /\ Truthy(aqi)
              THEN set_cached(c2, now, AqiKey(geo), aqi)
              ELSE c2
    IN  /\ btn_search' = TRUE
        /\ cache' = c3
        /\ cacheFile' = save_cache(c3)
        /\ history' = add_history(history, city)
        /\ historyFile' = IF TruthyStr(city) THEN save_history(history') ELSE historyFile
        /\ current_city' = city
        /\ current_geo' = geo
        /\ current_weather' = wx
        /\ current_aqi' = aqi

\* the lookup with the configured ttl even when a refresh is forced
LookupIgnoringForce(text, st, force_refresh) ==
    LET city == strip(text)
        geo == get_cached(cache, now, GeoKey(city), GeoTtlMinutes)
        wx == IF Truthy(geo)
              THEN get_cached(cache, now, WxKey(geo, st.units), st.cache_ttl_minutes)
              ELSE None
        aqi == IF Truthy(geo) /\ st.show_aqi
               THEN get_cached(cache, now, AqiKey(geo), AqiTtlMinutes)
               ELSE None
    IN  <<geo, wx, aqi>>

\* the lookup with the forecast's ttl for the three categories
LookupOneTtl(text, st, force_refresh) ==
    LET city == strip(text)
        ttl == IF force_refresh THEN 0 ELSE st.cache_ttl_minutes
        geo == get_cached(cache, now, GeoKey(city), ttl)
        wx == IF Truthy(geo)
              THEN get_cached(cache, now, WxKey(geo, st.units), ttl)
              ELSE None
        aqi == IF Truthy(geo) /\ st.show_aqi
               THEN get_cached(cache, now, AqiKey(geo), ttl)
               ELSE None
    IN  <<geo, wx, aqi>>

\* what fetch_and_render reads from the cache: <<geo, wx, aqi>>
Lookup(text, st, force_refresh) ==
    LET city == strip(text)
        ttl == IF force_refresh THEN 0 ELSE st.cache_ttl_minutes
        geo == get_cached(cache, now, GeoKey(city), GeoTtlMinutes)
        wx == IF Truthy(geo)
              THEN get_cached(cache, now, WxKey(geo, st.units), ttl)
              ELSE None
        aqi == IF Truthy(geo) /\ st.show_aqi
               THEN get_cached(cache, now, AqiKey(geo), AqiTtlMinutes)
               ELSE None
    IN  <<geo, wx, aqi>>

\* the test without its air-quality half
CacheCompleteIgnoringAqi(st, wx, aqi) == Truthy(wx)

\* the test that sends fetch_and_render to the cached result
CacheComplete(st, wx, aqi) == Truthy(wx) /\ (Truthy(aqi) \/ ~st.show_aqi)

\* fetch_and_render as run with the search field text and the settings st
fetch_and_render(text, st, force_refresh) ==
    LET city == strip(text)
        found == Lookup(text, st, force_refresh)
        geo == found[1]
        wx == found[2]
        aqi == found[3]
    IN
    IF ~TruthyStr(city)
    THEN /\ lastOp' = [op |-> "fetch_and_render", city |-> city,
                       force |-> force_refresh, outcome |-> "blank"]
         /\ UNCHANGED <<btn_search, cache, cacheFile, history, historyFile,
                        current_city, current_geo, current_weather, current_aqi,
                        workers, nextId>>
    ELSE IF CacheComplete(st, wx, aqi)
    THEN /\ on_fetch_done(text, st, geo, wx, IF Truthy(aqi) THEN aqi ELSE EmptyDict)
         /\ lastOp' = [op |-> "fetch_and_render", city |-> city,
                       force |-> force_refresh, outcome |-> "hit"]
         /\ UNCHANGED <<workers, nextId>>
    ELSE /\ nextId < MaxFetches
         /\ Cardinality(DOMAIN workers) < MaxWorkers
         /\ btn_search' = FALSE
         /\ workers' = [i \in DOMAIN workers \cup {nextId} |->
                           IF i = nextId
                           THEN FetchWorker(city, st.units, st.show_aqi)
                           ELSE workers[i]]
         /\ nextId' = nextId + 1
         /\ lastOp' = [op |-> "fetch_and_render", city |-> city,
                       force |-> force_refresh, outcome |-> "dispatch"]
         /\ UNCHANGED <<cache, cacheFile, history, historyFile,
                        current_city, current_geo, current_weather, current_aqi>>

Max(a, b) == IF a > b THEN a ELSE b

OnFetchDone ==
    /\ queue # << >>
    /\ Head(queue).sig = "done"
    /\ LET e == Head(queue) IN
       /\ on_fetch_done(city_edit, settings, e.geo, e.wx, e.aqi)
       /\ doneMax' = Max(doneMax, e.id)
       /\ lastOp' = [op |-> "on_fetch_done", id |-> e.id, city |-> e.city,
                     units |-> e.units, show_aqi |-> e.show_aqi,
                     geo |-> e.geo, wx |-> e.wx, aqi |-> e.aqi]
    /\ queue' = Tail(queue)
    /\ UNCHANGED <<now, ret, settings, settingsFile, city_edit, workers, nextId,
                   ip_thread, events>>

\* on_fetch_failed that records the failed name in the history
OnFetchFailedRecording ==
    /\ queue # << >>
    /\ Head(queue).sig = "failed"
    /\ btn_search' = TRUE
    /\ history' = add_history(history, Head(queue).city)
    /\ historyFile' = save_history(history')
    /\ lastOp' = [op |-> "on_fetch_failed", id |-> Head(queue).id,
                  city |-> Head(queue).city, err |-> Head(queue).err]
    /\ queue' = Tail(queue)
    /\ UNCHANGED <<now, ret, city_edit, current_city, current_geo, current_weather,
                   current_aqi, workers, nextId, ip_thread, doneMax, events>>
    /\ UNCHANGED <<settings, settingsFile, cache, cacheFile>>

OnFetchFailed ==
    /\ queue # << >>
    /\ Head(queue).sig = "failed"
    /\ btn_search' = TRUE
    /\ lastOp' = [op |-> "on_fetch_failed", id |-> Head(queue).id,
                  city |-> Head(queue).city, err |-> Head(queue).err]
    /\ queue' = Tail(queue)
    /\ UNCHANGED <<now, ret, city_edit, current_city, current_geo, current_weather,
                   current_aqi, workers, nextId, ip_thread, doneMax, events>>
    /\ UNCHANGED storageVars

OnWorkerFinished ==
    /\ queue # << >>
    /\ Head(queue).sig = "finished"
    /\ btn_search' = TRUE
    /\ lastOp' = [op |-> "on_worker_finished", id |-> Head(queue).id]
    /\ queue' = Tail(queue)
    /\ UNCHANGED <<now, ret, city_edit, current_city, current_geo, current_weather,
                   current_aqi, workers, nextId, ip_thread, doneMax, events>>
    /\ UNCHANGED storageVars

----------------------------------------------------------------------------
(* User and timer events *)

\* texts the user types and the IP service reports
Texts == {EmptyStr, <<"a">>, <<" ", "A">>, <<"b">>}
IpCities == {<<"b">>}
\* stands for the literal "Tehran" of on_ip_failed
Tehran == <<"A">>

UnitsChoices == {"metric", "imperial"}
TtlChoices == {DefaultTtlMinutes}

AppOffsets ==
    {0, DefaultTtlMinutes * 60 + 1, AqiTtlMinutes * 60 + 1, GeoTtlMinutes * 60 + 1}

AppTimes == {StartTime + d : d \in AppOffsets}

uiFrame == UNCHANGED <<now, ret, queue, ip_thread, doneMax>>

EditText(t) ==
    /\ t # city_edit
    /\ city_edit' = t
    /\ lastOp' = [op |-> "edit"]
    /\ UNCHANGED <<now, ret, current_city, current_geo, current_weather, current_aqi,
                   btn_search, workers, queue, nextId, ip_thread, doneMax>>
    /\ UNCHANGED storageVars

SearchClicked ==
    /\ btn_search
    /\ fetch_and_render(city_edit, settings, FALSE)
    /\ UNCHANGED <<city_edit, settings, settingsFile>>
    /\ uiFrame

ReturnPressed ==
    /\ fetch_and_render(city_edit, settings, FALSE)
    /\ UNCHANGED <<city_edit, settings, settingsFile>>
    /\ uiFrame

RefreshCurrent ==
    /\ TruthyStr(current_city)
    /\ fetch_and_render(city_edit, settings, TRUE)
    /\ UNCHANGED <<city_edit, settings, settingsFile>>
    /\ uiFrame

SearchCity(city) ==
    /\ city_edit' = city
    /\ fetch_and_render(city, settings, FALSE)
    /\ UNCHANGED <<settings, settingsFile>>
    /\ uiFrame

OpenSettings(units, show_aqi, ttl) ==
    LET st == [settings EXCEPT !.units = units, !.show_aqi = show_aqi,
                               !.cache_ttl_minutes = ttl]
    IN  /\ settings' = st
        /\ settingsFile' = save_settings(st)
        /\ IF TruthyStr(current_city)
           THEN fetch_and_render(city_edit, st, TRUE)
           ELSE /\ lastOp' = [op |-> "open_settings"]
                /\ UNCHANGED <<btn_search, cache, cacheFile, history, historyFile,
                               current_city, current_geo, current_weather, current_aqi,
                               workers, nextId>>
        /\ UNCHANGED city_edit
        /\ uiFrame

ClearHistory ==
    /\ history # << >>
    /\ history' = clear_history(history)
    /\ historyFile' = save_history(history')
    /\ lastOp' = [op |-> "clear_history"]
    /\ UNCHANGED <<now, ret, settings, settingsFile, cache, cacheFile>>
    /\ UNCHANGED appVars

OnIpFound(city) ==
    /\ ip_thread
    /\ ip_thread' = FALSE
    /\ city_edit' = city
    /\ fetch_and_render(city, settings, FALSE)
    /\ UNCHANGED <<now, ret, queue, doneMax, settings, settingsFile, events>>

OnIpFailed ==
    /\ ip_thread
    /\ ip_thread' = FALSE
    /\ city_edit' = Tehran
    /\ fetch_and_render(Tehran, settings, FALSE)
    /\ UNCHANGED <<now, ret, queue, doneMax, settings, settingsFile, events>>

Tick ==
    /\ \E t \in AppTimes : t > now /\ now' = t
    /\ lastOp' = [op |-> "tick"]
    /\ UNCHANGED <<ret, events>>
    /\ UNCHANGED storageVars
    /\ UNCHANGED appVars

Init ==
    /\ InitIdle
    /\ ip_thread = TRUE

\* an impatient user: any event at any moment, MaxUserEvents of them
Budget == events < MaxUserEvents /\ events' = events + 1

UserEditText(t) == Budget /\ EditText(t)
UserSearchClicked == Budget /\ SearchClicked
UserReturnPressed == Budget /\ ReturnPressed
UserRefreshCurrent == Budget /\ RefreshCurrent
UserOpenSettings(u, a, ttl) == Budget /\ OpenSettings(u, a, ttl)

Next ==
    \/ \E t \in Texts : UserEditText(t)
    \/ UserSearchClicked
    \/ UserReturnPressed
    \/ UserRefreshCurrent
    \/ \E u \in UnitsChoices, a \in BOOLEAN, ttl \in TtlChoices : UserOpenSettings(u, a, ttl)
    \/ \E c \in IpCities : OnIpFound(c)
    \/ OnIpFailed
    \/ \E id \in DOMAIN workers : RunGeocode(id)
    \/ \E id \in DOMAIN workers : RunForecast(id)
    \/ \E id \in DOMAIN workers : RunAirQuality(id)
    \/ OnFetchDone
    \/ OnFetchFailed
    \/ OnWorkerFinished

Spec == Init /\ [][Next]_vars

----------------------------------------------------------------------------
(* The same program with a user who waits for each fetch to end and with *)
(* long pauses between the events (each http_get has timeout=10, so the  *)
(* clock readings of AppTimes are never reached during a fetch)          *)

Idle == workers = NoWorkers /\ queue = << >>

Patient == Idle /\ UNCHANGED events

IdleEditText(t) == Patient /\ EditText(t)
IdleReturnPressed == Patient /\ ReturnPressed
IdleRefreshCurrent == Patient /\ RefreshCurrent
IdleSearchCity(c) == Patient /\ SearchCity(c)
IdleOpenSettings(u, a, ttl) == Patient /\ OpenSettings(u, a, ttl)
IdleClearHistory == Patient /\ ClearHistory
IdleTick == Idle /\ ~ip_thread /\ Tick

NextAging ==
    \/ \E t \in Texts : IdleEditText(t)
    \/ IdleReturnPressed
    \/ IdleRefreshCurrent
    \/ \E c \in Elems(Prefix(history, 10)) : IdleSearchCity(c)
    \/ \E a \in BOOLEAN : IdleOpenSettings(settings.units, a, settings.cache_ttl_minutes)
    \/ IdleClearHistory
    \/ OnIpFailed
    \/ \E id \in DOMAIN workers : RunGeocode(id)
    \/ \E id \in DOMAIN workers : RunForecast(id)
    \/ \E id \in DOMAIN workers : RunAirQuality(id)
    \/ OnFetchDone
    \/ OnFetchFailed
    \/ OnWorkerFinished
    \/ IdleTick

SpecAging == Init /\ [][NextAging]_vars

----------------------------------------------------------------------------
(* The patient user who looks up one place under several spellings and *)
(* switches the air-quality display on and off                          *)

PlaceSpellings == {<<"a">>, <<" ", "A">>, <<"A", " ">>}

\* two of the entries of SettingsDialog.cmb_ttl
DialogTtls == {DefaultTtlMinutes, 60}

NextSpellings ==
    \/ \E t \in PlaceSpellings : IdleEditText(t)
    \/ IdleReturnPressed
    \/ IdleRefreshCurrent
    \/ \E a \in BOOLEAN, ttl \in DialogTtls : IdleOpenSettings(settings.units, a, ttl)
    \/ OnIpFailed
    \/ \E id \in DOMAIN workers : RunGeocode(id)
    \/ \E id \in DOMAIN workers : RunForecast(id)
    \/ \E id \in DOMAIN workers : RunAirQuality(id)
    \/ OnFetchDone
    \/ OnFetchFailed
    \/ OnWorkerFinished
    \/ IdleTick

SpecSpellings == Init /\ [][NextSpellings]_vars

----------------------------------------------------------------------------
(* Direct calls of the history API, starting from an empty history *)

\* one-letter place names other than the spellings of "a" and "b"
Alphabet ==
    <<"c", "d", "e", "f", "g", "h", "i", "j", "k", "l", "m", "n",
      "o", "p", "q", "r", "s", "t", "u", "v", "w", "x", "y", "z">>

FreshName(i) == <<Alphabet[i]>>

\* the names of the list that are FreshNames, in the order of the list
FreshOf(lst) == SelectSeq(lst, LAMBDA e : \E i \in 1..MaxNames : e = FreshName(i))

\* the name after the newest FreshName of the list: a caller that visits
\* new places one after the other, MaxNames of them at most
NextName(lst) ==
    IF FreshOf(lst) = << >> THEN {FreshName(1)}
    ELSE LET i == CHOOSE k \in 1..MaxNames : FreshName(k) = FreshOf(lst)[1]
         IN  IF i < MaxNames THEN {FreshName(i + 1)} ELSE {}

\* spellings of one place, and blank inputs
Spellings == {<<"a">>, <<"A">>, <<" ", "a", " ">>}
Blanks == {EmptyStr, <<" ", " ">>}

AddHistoryCall(city) ==
    /\ history' = add_history(history, city)
    /\ historyFile' = IF TruthyStr(strip(city)) THEN save_history(history') ELSE historyFile
    /\ lastOp' = [op |-> "add_history", city |-> city]
    /\ UNCHANGED <<now, settings, settingsFile, cache, cacheFile, ret, events>>
    /\ UNCHANGED appVars

\* a clearing of the history that empties the favourites with it
ClearHistoryCallWithFavorites ==
    /\ history' = clear_history(history)
    /\ historyFile' = save_history(history')
    /\ settings' = [settings EXCEPT !.favorites = << >>]
    /\ settingsFile' = save_settings(settings')
    /\ lastOp' = [op |-> "clear_history"]
    /\ UNCHANGED <<now, cache, cacheFile, ret, events>>
    /\ UNCHANGED appVars

ClearHistoryCall ==
    /\ history' = clear_history(history)
    /\ historyFile' = save_history(history')
    /\ lastOp' = [op |-> "clear_history"]
    /\ UNCHANGED <<now, settings, settingsFile, cache, cacheFile, ret, events>>
    /\ UNCHANGED appVars

AddHistoryStep ==
    \E city \in Spellings \cup Blanks \cup NextName(history) : AddHistoryCall(city)

NextHistory ==
    \/ AddHistoryStep
    \/ ClearHistoryCall

SpecHistory == InitStorage /\ [][NextHistory]_vars

----------------------------------------------------------------------------
(* Start-up from the files on disk, then direct calls of the Storage API *)

\* a favourites list longer than the cap, as a settings file can hold it
LongFavorites == [i \in 1..MaxNames |-> FreshName(i)]

OneEntryCache == set_cached(NoCache, StartTime, GeoKey(<<"a">>), GeoA)

\* what the three files can hold when the program starts
SettingsFiles ==
    {Json(DefaultSettings),
     Json([DefaultSettings EXCEPT !.favorites = LongFavorites]),
     [kind |-> "missing", value |-> DefaultSettings],
     [kind |-> "unreadable", value |-> [DefaultSettings EXCEPT !.favorites = <<<<"b">>>>]],
     [kind |-> "corrupt", value |-> [DefaultSettings EXCEPT !.favorites = <<<<"b">>>>]]}

CacheFiles ==
    {Json(OneEntryCache),
     [kind |-> "missing", value |-> NoCache],
     [kind |-> "corrupt", value |-> OneEntryCache]}

HistoryFiles ==
    {Json(<<<<"b">>>>),
     [kind |-> "missing", value |-> << >>],
     [kind |-> "corrupt", value |-> <<<<"b">>>>]}

\* Storage.__init__: load_all reads the three files
InitRegistry ==
    /\ settingsFile \in SettingsFiles
    /\ cacheFile \in CacheFiles
    /\ historyFile \in HistoryFiles
    /\ settings = _load(settingsFile, DefaultSettings)
    /\ cache = _load(cacheFile, NoCache)
    /\ history = _load(historyFile, << >>)
    /\ now = StartTime
    /\ city_edit = EmptyStr
    /\ current_city = EmptyStr
    /\ current_geo = None
    /\ current_weather = None
    /\ current_aqi = None
    /\ btn_search = TRUE
    /\ workers = NoWorkers
    /\ queue = << >>
    /\ nextId = 0
    /\ ip_thread = FALSE
    /\ events = 0
    /\ doneMax = -1
    /\ ret = None
    /\ lastOp = [op |-> "init"]

\* add_favorite that does not write the settings file
AddFavoriteCallUnsaved(city) ==
    /\ settings' = [settings EXCEPT !.favorites = add_favorite(settings.favorites, city)]
    /\ lastOp' = [op |-> "add_favorite", city |-> city]
    /\ UNCHANGED <<now, settingsFile, history, historyFile, cache, cacheFile, ret, events>>
    /\ UNCHANGED appVars

AddFavoriteCall(city) ==
    /\ settings' = [settings EXCEPT !.favorites = add_favorite(settings.favorites, city)]
    /\ settingsFile' = save_settings(settings')
    /\ lastOp' = [op |-> "add_favorite", city |-> city]
    /\ UNCHANGED <<now, history, historyFile, cache, cacheFile, ret, events>>
    /\ UNCHANGED appVars

RemoveFavoriteCall(city) ==
    /\ settings' = [settings EXCEPT !.favorites = remove_favorite(settings.favorites, city)]
    /\ settingsFile' = save_settings(settings')
    /\ lastOp' = [op |-> "remove_favorite", city |-> city]
    /\ UNCHANGED <<now, history, historyFile, cache, cacheFile, ret, events>>
    /\ UNCHANGED appVars

\* the favourites calls the window makes: the current place, any spelling
FavoriteInputs == {<<"a">>, <<"A">>}

AddFavoriteStep == \E city \in FavoriteInputs : AddFavoriteCall(city)
RemoveFavoriteStep == \E city \in FavoriteInputs : RemoveFavoriteCall(city)
RegistryHistoryStep == \E city \in Spellings \cup {EmptyStr} : AddHistoryCall(city)

NextRegistry ==
    \/ AddFavoriteStep
    \/ RemoveFavoriteStep
    \/ RegistryHistoryStep
    \/ ClearHistoryCall
    \/ SetCachedStep

SpecRegistry == InitRegistry /\ [][NextRegistry]_vars

----------------------------------------------------------------------------
(* The program on a disk whose writes can fail (disk full, no permission) *)

\* the save_* calls of on_fetch_done, in the order they are made
WritePoints == {"geo", "wx", "aqi", "history"}

\* a file after open(path, "w") or json.dump raised: as it was when open
\* raised, cut short when the dump raised
FailedWrite(file, obj) == {file, [kind |-> "corrupt", value |-> obj]}

\* on_fetch_done when the save at `point` raises and leaves the file as
\* `left`: the statements before the save have run, the rest has not
on_fetch_doneWriteFails(text, st, geo, wx, aqi, point, left) ==
    LET city == strip(text)
        c1 == set_cached(cache, now, GeoKey(city), geo)
        c2 == set_cached(c1, now, WxKey(geo, st.units), wx)
        c3 == IF st.show_aqi /\ Truthy(aqi)
              THEN set_cached(c2, now, AqiKey(geo), aqi)
              ELSE c2
    IN  /\ btn_search' = TRUE
        /\ UNCHANGED <<current_city, current_geo, current_weather, current_aqi>>
        /\ CASE point = "geo" ->
                  /\ cache' = c1
                  /\ cacheFile' = left
                  /\ UNCHANGED <<history, historyFile>>
             [] point = "wx" ->
                  /\ cache' = c2
                  /\ cacheFile' = left
                  /\ UNCHANGED <<history, historyFile>>
             [] point = "aqi" ->
                  /\ st.show_aqi /\ Truthy(aqi)
                  /\ cache' = c3
                  /\ cacheFile' = left
                  /\ UNCHANGED <<history, historyFile>>
             [] point = "history" ->
                  /\ TruthyStr(city)
                  /\ cache' = c3
                  /\ cacheFile' = save_cache(c3)
                  /\ history' = add_history(history, city)
                  /\ historyFile' = left

\* the files a failed save can leave behind
LeftFiles(text, st, geo, wx, aqi) ==
    LET city == strip(text)
        c1 == set_cached(cache, now, GeoKey(city), geo)
        c2 == set_cached(c1, now, WxKey(geo, st.units), wx)
        c3 == IF st.show_aqi /\ Truthy(aqi)
              THEN set_cached(c2, now, AqiKey(geo), aqi)
              ELSE c2
    IN  [geo |-> FailedWrite(cacheFile, c1),
         wx |-> FailedWrite(save_cache(c1), c2),
         aqi |-> FailedWrite(save_cache(c2), c3),
         history |-> FailedWrite(historyFile, add_history(history, city))]

\* the done slot ends with the exception of the failed save
OnFetchDoneWriteFails ==
    /\ queue # << >>
    /\ Head(queue).sig = "done"
    /\ LET e == Head(queue) IN
       \E point \in WritePoints :
       \E left \in LeftFiles(city_edit, settings, e.geo, e.wx, e.aqi)[point] :
          /\ on_fetch_doneWriteFails(city_edit, settings, e.geo, e.wx, e.aqi, point, left)
          /\ doneMax' = Max(doneMax, e.id)
          /\ lastOp' = [op |-> "write_failed", from |-> "on_fetch_done", point |-> point,
                        geo |-> e.geo, wx |-> e.wx]
    /\ queue' = Tail(queue)
    /\ UNCHANGED <<now, ret, settings, settingsFile, city_edit, workers, nextId,
                   ip_thread, events>>

\* fetch_and_render on its cached branch when a save of on_fetch_done
\* raises: the except clause shows the error, clear_ui_on_error and
\* on_worker_finished run
FetchAndRenderWriteFails ==
    LET found == Lookup(city_edit, settings, FALSE)
        aqi == IF Truthy(found[3]) THEN found[3] ELSE EmptyDict
    IN  /\ TruthyStr(strip(city_edit))
        /\ CacheComplete(settings, found[2], found[3])
        /\ \E point \in WritePoints :
           \E left \in LeftFiles(city_edit, settings, found[1], found[2], aqi)[point] :
              /\ on_fetch_doneWriteFails(city_edit, settings, found[1], found[2], aqi,
                                         point, left)
              /\ lastOp' = [op |-> "write_failed", from |-> "fetch_and_render",
                            point |-> point, geo |-> found[1], wx |-> found[2]]
        /\ UNCHANGED <<now, ret, settings, settingsFile, city_edit, workers, nextId,
                       ip_thread, queue, doneMax>>

IdleReturnPressedWriteFails == Patient /\ FetchAndRenderWriteFails

NextFaulty ==
    \/ \E t \in Texts : IdleEditText(t)
    \/ IdleReturnPressed
    \/ IdleReturnPressedWriteFails
    \/ OnIpFailed
    \/ \E id \in DOMAIN workers : RunGeocode(id)
    \/ \E id \in DOMAIN workers : RunForecast(id)
    \/ \E id \in DOMAIN workers : RunAirQuality(id)
    \/ OnFetchDone
    \/ OnFetchDoneWriteFails
    \/ OnFetchFailed
    \/ OnWorkerFinished

SpecFaulty == Init /\ [][NextFaulty]_vars

----------------------------------------------------------------------------
(* Direct use of the forecast and air-quality keys with coordinates that *)
(* lie close to each other                                              *)

\* latitudes and longitudes in 1e-5 degree
CoordLats == {3568917, 3568922, 3568927, -4, 4}
CoordLons == {5138897, 5138903}

GeoAt(lat, lon) == [kind |-> "geo", name |-> <<"A">>, lat |-> lat, lon |-> lon]

\* the two set_cached calls of on_fetch_done that use the coordinates
StoreAtCall(lat, lon) ==
    LET geo == GeoAt(lat, lon)
        wx == [kind |-> "wx", lat |-> lat, lon |-> lon, units |-> "metric", at |-> now]
        aqi == [kind |-> "aqi", lat |-> lat, lon |-> lon, at |-> now]
        c1 == set_cached(cache, now, WxKey(geo, "metric"), wx)
        c2 == set_cached(c1, now, AqiKey(geo), aqi)
    IN  /\ cache' = c2
        /\ cacheFile' = save_cache(c2)
        /\ lastOp' = [op |-> "store_at", lat |-> lat, lon |-> lon]
        /\ UNCHANGED <<now, settings, settingsFile, history, historyFile, ret, events>>
        /\ UNCHANGED appVars

\* the two get_cached calls of fetch_and_render that use the coordinates
LookupAtCall(lat, lon) ==
    LET geo == GeoAt(lat, lon) IN
    /\ ret' = [kind |-> "found",
               wx |-> get_cached(cache, now, WxKey(geo, "metric"), DefaultTtlMinutes),
               aqi |-> get_cached(cache, now, AqiKey(geo), AqiTtlMinutes)]
    /\ lastOp' = [op |-> "lookup_at", lat |-> lat, lon |-> lon]
    /\ UNCHANGED <<now, events>>
    /\ UNCHANGED storageVars
    /\ UNCHANGED appVars

StoreAtStep == \E lat \in CoordLats, lon \in CoordLons : StoreAtCall(lat, lon)
LookupAtStep == \E lat \in CoordLats, lon \in CoordLons : LookupAtCall(lat, lon)

NextCoordinates ==
    \/ StoreAtStep
    \/ LookupAtStep

SpecCoordinates == InitStorage /\ [][NextCoordinates]_vars

----------------------------------------------------------------------------
(* Fetches that run to their end: the worker threads are scheduled and the
   event loop delivers every queued signal *)

\* the name the user searches for: the service finds it or finds no match
LiveCity == <<"b">>

\* one step of the thread of worker id
WorkerStep(id) ==
    /\ id \in DOMAIN workers
    /\ (RunGeocode(id) \/ RunForecast(id) \/ RunAirQuality(id))

\* every started thread runs on while it has a request to make, and the
\* event loop calls the slot of the signal at the head of its queue
Fairness ==
    /\ \A id \in 0..(MaxFetches - 1) : WF_vars(WorkerStep(id))
    /\ WF_vars(OnFetchDone)
    /\ WF_vars(OnFetchFailed)
    /\ WF_vars(OnWorkerFinished)

\* a search at any moment, also while a fetch is in flight
UserSearchCity ==
    /\ events < MaxFetches
    /\ events' = events + 1
    /\ SearchCity(LiveCity)

NextLive ==
    \/ UserSearchCity
    \/ OnIpFailed
    \/ \E id \in DOMAIN workers : RunGeocode(id)
    \/ \E id \in DOMAIN workers : RunForecast(id)
    \/ \E id \in DOMAIN workers : RunAirQuality(id)
    \/ OnFetchDone
    \/ OnFetchFailed
    \/ OnWorkerFinished

SpecLive == Init /\ [][NextLive]_vars /\ Fairness

----------------------------------------------------------------------------
(* Claims about Storage, checked under SpecStorage *)

TtlSamples == {0, 1, DefaultTtlMinutes, AqiTtlMinutes, GeoTtlMinutes}

\* C7: for a ttl above zero, get_cached returns the stored payload exactly
\* when the entry exists and its age (now - ts) is at most ttl minutes, and
\* None when there is no entry or the entry is older.
C7_TtlOnRead ==
    (lastOp.op = "get_cached" /\ lastOp.ttl > 0) =>
        ret = IF /\ lastOp.key \in DOMAIN cache
                 /\ now - cache[lastOp.key].ts <= lastOp.ttl * 60
              THEN cache[lastOp.key].data
              ELSE None

\* an entry read at the age of exactly 20 minutes with ttl 20 is returned
C7_Witness ==
    /\ lastOp.op = "get_cached"
    /\ lastOp.ttl = DefaultTtlMinutes
    /\ lastOp.key \in DOMAIN cache
    /\ now - cache[lastOp.key].ts = DefaultTtlMinutes * 60
    /\ ret = GeoA

\* C8: with ttl 0, get_cached returns the stored payload of every key that
\* has an entry, whatever the age of the entry.
C8_ZeroTtlNeverExpires ==
    (lastOp.op = "get_cached" /\ lastOp.ttl = 0 /\ lastOp.key \in DOMAIN cache) =>
        ret = cache[lastOp.key].data

\* an entry older than a day is returned by a read with ttl 0
C8_Witness ==
    /\ lastOp.op = "get_cached"
    /\ lastOp.ttl = 0
    /\ lastOp.key \in DOMAIN cache
    /\ now - cache[lastOp.key].ts > GeoTtlMinutes * 60
    /\ ret = GeoA

\* C9: set_cached(key, payload) makes the entry of key (ts = now, payload),
\* leaves the entry of every other key as it was, writes the whole cache to
\* the cache file, and a get_cached of key right after it returns the
\* payload for every ttl.
C9_SetThenGet ==
    [][lastOp'.op = "set_cached" =>
        LET key == lastOp'.key
            data == lastOp'.data
        IN  /\ DOMAIN cache' = DOMAIN cache \cup {key}
            /\ cache'[key] = [ts |-> now', data |-> data]
            /\ \A k \in DOMAIN cache \ {key} : cache'[k] = cache[k]
            /\ cacheFile' = Json(cache')
            /\ \A t \in TtlSamples : get_cached(cache', now', key, t) = data]_vars

\* a set_cached that overwrote nothing of the other, older entry
C9_Witness ==
    /\ lastOp.op = "set_cached"
    /\ lastOp.data = GeoA
    /\ \E k \in DOMAIN cache : k # lastOp.key /\ cache[k].ts < now
    /\ cacheFile = Json(cache)

----------------------------------------------------------------------------
(* Claims about the fetch orchestration *)

Age(k) == now - cache[k].ts

\* the entry of key k exists and is at most ttl_minutes old
Fresh(k, ttl_minutes) == k \in DOMAIN cache /\ Age(k) <= ttl_minutes * 60

IsFetch(op) == op.op = "fetch_and_render"
IsHit(op) == IsFetch(op) /\ op.outcome = "hit"
IsDispatch(op) == IsFetch(op) /\ op.outcome = "dispatch"

\* C1: a fetch_and_render with a non-blank place delivers the cached
\* snapshot without a FetchWorker only if the geocode entry was found, the
\* forecast lookup returned a payload and (the air-quality lookup returned a
\* payload or show_aqi is off); with geocode and forecast cached, show_aqi
\* on and no air-quality entry, it dispatches a FetchWorker.
C1_CacheGate ==
    [][IsFetch(lastOp') =>
        LET city == strip(city_edit')
            st == settings'
            gk == GeoKey(city)
            found == Lookup(city_edit', st, lastOp'.force)
        IN  /\ IsHit(lastOp') =>
                /\ Fresh(gk, GeoTtlMinutes)
                /\ found[1] = cache[gk].data
                /\ WxKey(found[1], st.units) \in DOMAIN cache
                /\ found[2] = cache[WxKey(found[1], st.units)].data
                /\ st.show_aqi =>
                      /\ Fresh(AqiKey(found[1]), AqiTtlMinutes)
                      /\ found[3] = cache[AqiKey(found[1])].data
                /\ current_geo' = found[1]
                /\ current_weather' = found[2]
                /\ nextId' = nextId /\ workers' = workers
            /\ ( /\ TruthyStr(city)
                 /\ Fresh(gk, GeoTtlMinutes)
                 /\ WxKey(cache[gk].data, st.units) \in DOMAIN cache
                 /\ st.show_aqi
                 /\ AqiKey(cache[gk].data) \notin DOMAIN cache )
               => /\ IsDispatch(lastOp')
                  /\ nextId' = nextId + 1
                  /\ nextId \in DOMAIN workers'
                  /\ current_weather' = current_weather]_vars

\* a FetchWorker was dispatched although geocode and forecast are cached,
\* because show_aqi is on and there is no air-quality entry
C1_Witness ==
    /\ IsDispatch(lastOp)
    /\ settings.show_aqi
    /\ Fresh(GeoKey(lastOp.city), GeoTtlMinutes)
    /\ Fresh(WxKey(cache[GeoKey(lastOp.city)].data, settings.units),
             settings.cache_ttl_minutes)
    /\ AqiKey(cache[GeoKey(lastOp.city)].data) \notin DOMAIN cache

\* C2 (as claimed): when the done signal of the fetch dispatched for place P
\* with units U is handled, the geocode result is stored under geo::<P
\* trimmed, lowercased>, the forecast under the wx key of the resolved
\* coordinates and U, and P is put at the front of the history.
C2_WriteBackUsesRequest ==
    [][lastOp'.op = "on_fetch_done" =>
        LET e == Head(queue)
            P == strip(e.city)
        IN  /\ GeoKey(P) \in DOMAIN cache'
            /\ cache'[GeoKey(P)] = [ts |-> now, data |-> e.geo]
            /\ WxKey(e.geo, e.units) \in DOMAIN cache'
            /\ cache'[WxKey(e.geo, e.units)] = [ts |-> now, data |-> e.wx]
            /\ history' # << >>
            /\ history'[1] = P]_vars

\* C3 (as claimed): the done signal of a fetch that was dispatched before a
\* fetch whose done signal has already been handled is discarded: it leaves
\* the current snapshot as it is.
C3_LatestDispatchedWins ==
    [][(lastOp'.op = "on_fetch_done" /\ Head(queue).id < doneMax) =>
        UNCHANGED <<current_city, current_geo, current_weather, current_aqi>>]_vars

\* C4: a forced fetch_and_render finds a cached forecast of any age; with a
\* geocode entry at most 1440 minutes old, a forecast entry, and (an
\* air-quality entry at most 60 minutes old or show_aqi off) it delivers the
\* cached snapshot and dispatches no FetchWorker.
C4_ForcedRefreshServedFromCache ==
    [][(IsFetch(lastOp') /\ lastOp'.force /\ TruthyStr(strip(city_edit'))) =>
        LET gk == GeoKey(strip(city_edit'))
            geo == cache[gk].data
            wk == WxKey(geo, settings'.units)
        IN  ( /\ Fresh(gk, GeoTtlMinutes)
              /\ wk \in DOMAIN cache
              /\ (~settings'.show_aqi \/ Fresh(AqiKey(geo), AqiTtlMinutes)) )
            => /\ IsHit(lastOp')
               /\ current_weather' = cache[wk].data
               /\ current_geo' = geo
               /\ nextId' = nextId /\ workers' = workers /\ queue' = queue]_vars

\* a forced refresh was served a forecast older than cache_ttl_minutes
C4_Witness ==
    /\ IsHit(lastOp)
    /\ lastOp.force
    /\ current_weather # None
    /\ now - current_weather.at > settings.cache_ttl_minutes * 60

StorageUnchanged == UNCHANGED <<cache, cacheFile, history, historyFile>>

\* C5: a geocode step that returns no match, a 404 or any error, and a
\* forecast step that fails, end the fetch with the failed signal; neither
\* the dispatch, nor a step of the worker, nor the handling of failed
\* changes the cache, the history or their files.
C5_FailureLeavesStorage ==
    [][/\ (lastOp'.op = "run" /\ lastOp'.call \in {"geo", "wx"} /\ lastOp'.failed) =>
            /\ Len(queue') = Len(queue) + 2
            /\ queue'[Len(queue) + 1].sig = "failed"
            /\ queue'[Len(queue) + 1].id = lastOp'.id
            /\ lastOp'.id \notin DOMAIN workers'
       /\ (lastOp'.op = "run" \/ IsDispatch(lastOp')) => StorageUnchanged
       /\ lastOp'.op = "on_fetch_failed" =>
            /\ StorageUnchanged
            /\ UNCHANGED <<current_city, current_geo, current_weather>>]_vars

\* a failed signal was handled while the cache and the history held data
C5_Witness ==
    /\ lastOp.op = "on_fetch_failed"
    /\ DOMAIN cache # {}
    /\ history # << >>
    /\ lastOp.city \notin Elems(history)

\* C6: when the air-quality request fails the worker still emits done, with
\* an empty air-quality value; handling a done signal that carries an empty
\* air-quality value stores the geocode and the forecast entry and leaves
\* every air-quality entry as it was.
C6_TolerantAirQuality ==
    [][/\ (lastOp'.op = "run" /\ lastOp'.call = "aqi" /\ lastOp'.failed) =>
            /\ Len(queue') = Len(queue) + 2
            /\ queue'[Len(queue) + 1].sig = "done"
            /\ queue'[Len(queue) + 1].id = lastOp'.id
            /\ queue'[Len(queue) + 1].aqi = EmptyDict
       /\ (lastOp'.op = "on_fetch_done" /\ Head(queue).aqi = EmptyDict) =>
            LET e == Head(queue) IN
            /\ \E k \in DOMAIN cache' :
                  k[1] = "geo" /\ cache'[k] = [ts |-> now, data |-> e.geo]
            /\ \E k \in DOMAIN cache' :
                  k[1] = "wx" /\ cache'[k] = [ts |-> now, data |-> e.wx]
            /\ \A k \in DOMAIN cache' :
                  k[1] = "aqi" => (k \in DOMAIN cache /\ cache'[k] = cache[k])
            /\ current_aqi' = EmptyDict]_vars

\* a fetch dispatched with show_aqi on completed with done although its
\* air-quality request failed, and the cache holds no air-quality entry
C6_Witness ==
    /\ lastOp.op = "on_fetch_done"
    /\ lastOp.show_aqi
    /\ settings.show_aqi
    /\ lastOp.aqi = EmptyDict
    /\ WxKey(lastOp.geo, lastOp.units) \in DOMAIN cache
    /\ AqiKey(lastOp.geo) \notin DOMAIN cache

C11_SingleFlight == Cardinality(DOMAIN workers) <= 1

----------------------------------------------------------------------------
(* Claims about the history and the favourites *)

\* C12: after any sequence of add_history and clear_history calls that
\* starts from an empty history, the history has at most 20 entries, none
\* of them blank (empty after trimming), and no two of them are equal
\* ignoring letter case.
C12_HistoryInvariant ==
    /\ Len(history) <= 20
    /\ \A i \in 1..Len(history) :
          /\ history[i] # << >>
          /\ \E j \in 1..Len(history[i]) : history[i][j] # " "
    /\ \A i, j \in 1..Len(history) :
          i # j => lower(history[i]) # lower(history[j])

\* a full history into which one more name has just been put
C12_Witness ==
    /\ lastOp.op = "add_history"
    /\ Len(history) = 20
    /\ history[1] = FreshName(21)
    /\ FreshName(1) \notin Elems(history)
    /\ <<"A">> \in Elems(history)

\* C13: add_history(city) with a city that is not blank puts the trimmed
\* city at index 0, removes the earlier entries equal to it ignoring case,
\* keeps the other entries in their order and drops entries only at the
\* tail, so that 20 remain at most; with a city that is empty or only
\* whitespace it leaves the history list and the history file as they were.
C13_RecordVisited ==
    [][lastOp'.op = "add_history" =>
        LET city == lastOp'.city
            others == SelectSeq(history, LAMBDA e : lower(e) # lower(strip(city)))
            kept == IF Len(others) < 19 THEN Len(others) ELSE 19
        IN  IF \A i \in 1..Len(city) : city[i] = " "
            THEN history' = history /\ historyFile' = historyFile
            ELSE /\ history' # << >>
                 /\ history'[1] = strip(city)
                 /\ history'[1][1] # " "
                 /\ history'[1][Len(history'[1])] # " "
                 /\ Tail(history') = SubSeq(others, 1, kept)
                 /\ historyFile' = Json(history')]_vars

\* a name given with spaces around it went to the front of a full history
\* and pushed the oldest entry out
C13_Witness ==
    /\ lastOp.op = "add_history"
    /\ lastOp.city = <<" ", "a", " ">>
    /\ Len(history) = 20
    /\ history[1] = <<"a">>
    /\ history[2] = FreshName(MaxNames)
    /\ history[20] = FreshName(MaxNames - 18)

\* C14: add_favorite(city) puts city at the front only when no entry is
\* equal to it letter for letter (so two spellings of a name are two
\* entries) and otherwise keeps the order of the list; remove_favorite(city)
\* removes the entries equal to city letter for letter and keeps the
\* others, another spelling included, in their order.
C14_FavoritesExactMatch ==
    [][/\ lastOp'.op = "add_favorite" =>
            LET favs == settings.favorites
                city == lastOp'.city
                new == settings'.favorites
            IN  IF \E i \in 1..Len(favs) : favs[i] = city
                THEN new = SubSeq(favs, 1, IF Len(favs) < 20 THEN Len(favs) ELSE 20)
                ELSE /\ new # << >>
                     /\ new[1] = city
                     /\ Tail(new) = SubSeq(favs, 1, IF Len(favs) < 19 THEN Len(favs) ELSE 19)
       /\ lastOp'.op = "remove_favorite" =>
            LET favs == settings.favorites
                city == lastOp'.city
                new == settings'.favorites
            IN  /\ \A i \in 1..Len(new) : new[i] # city
                /\ new = SelectSeq(favs, LAMBDA e : e # city)
                /\ \A e \in Elems(favs) : (e # city /\ lower(e) = lower(city)) =>
                      e \in Elems(new)]_vars

\* the second spelling of a favourite was added as a second entry
C14_Witness ==
    /\ lastOp.op = "add_favorite"
    /\ lastOp.city = <<"A">>
    /\ settings.favorites = <<<<"A">>, <<"a">>>>

\* C15 (as claimed): after add_favorite and after remove_favorite the
\* favourites list has at most 20 entries, whatever it held before the
\* call, a list loaded from the settings file included.
C15_FavoritesCap ==
    lastOp.op \in {"add_favorite", "remove_favorite"} =>
        Len(settings.favorites) <= 20

\* C19: with no failing file write, when set_cached has run the cache file
\* holds the cache of the memory; when add_history with a city that is not
\* blank or clear_history has run the history file holds the history of
\* the memory; when add_favorite or remove_favorite has run the settings
\* file holds the favourites of the memory.
C19_DurableFollowsMemory ==
    [][/\ lastOp'.op = "set_cached" =>
            cacheFile' = [kind |-> "json", value |-> cache']
       /\ (lastOp'.op = "add_history" /\ strip(lastOp'.city) # << >>) =>
            historyFile' = [kind |-> "json", value |-> history']
       /\ lastOp'.op = "clear_history" =>
            historyFile' = [kind |-> "json", value |-> history']
       /\ lastOp'.op \in {"add_favorite", "remove_favorite"} =>
            /\ settingsFile'.kind = "json"
            /\ settingsFile'.value.favorites = settings'.favorites]_vars

\* the settings file that could not be read at start-up was rewritten by
\* add_favorite and now holds the favourites of the memory
C19_Witness ==
    /\ lastOp.op = "add_favorite"
    /\ settingsFile = [kind |-> "json", value |-> settings]
    /\ settings.favorites = <<<<"a">>>>
    /\ historyFile.kind = "corrupt"
    /\ cacheFile.kind = "json"
    /\ cacheFile.value = cache
    /\ Cardinality(DOMAIN cache) = 2

\* C20: when the program starts with a cache, history or settings file that
\* is missing, cannot be opened or does not hold JSON, the start-up
\* completes and the cache is the empty mapping, the history the empty
\* list, the settings the defaults with no favourites, each for its file.
C20_TolerantLoad ==
    lastOp.op = "init" =>
        /\ cacheFile.kind # "json" => cache = NoCache
        /\ historyFile.kind # "json" => history = << >>
        /\ settingsFile.kind # "json" =>
              (settings = DefaultSettings /\ settings.favorites = << >>)
        /\ cacheFile.kind = "json" => cache = cacheFile.value
        /\ historyFile.kind = "json" => history = historyFile.value
        /\ settingsFile.kind = "json" => settings = settingsFile.value

\* the program started with a corrupt cache file, a corrupt history file
\* and a settings file it could not open
C20_Witness ==
    /\ lastOp.op = "init"
    /\ cacheFile.kind = "corrupt"
    /\ historyFile.kind = "corrupt"
    /\ settingsFile.kind = "unreadable"
    /\ cache = NoCache
    /\ history = << >>
    /\ settings = DefaultSettings

----------------------------------------------------------------------------
(* Claims about the cache keys and the expiry of each category *)

\* one letter in either case with or without a space before and after it,
\* and the blank texts
Pads == {<< >>, <<" ">>}
NameSamples == {l \o <<c>> \o r : l \in Pads, c \in {"a", "A", "b"}, r \in Pads} \cup Pads

SameLetter(c, d) == c = d \/ {c, d} = {"a", "A"} \/ {c, d} = {"b", "B"}

\* the text between the first and the last character that is not a space
Core(s) ==
    LET inked == {i \in 1..Len(s) : s[i] # " "}
    IN  IF inked = {} THEN << >>
        ELSE SubSeq(s, CHOOSE i \in inked : \A j \in inked : i <= j,
                       CHOOSE i \in inked : \A j \in inked : i >= j)

\* s and t differ only in letter case and in the whitespace around them
SamePlace(s, t) ==
    LET cs == Core(s)
        ct == Core(t)
    IN  /\ Len(cs) = Len(ct)
        /\ \A i \in 1..Len(cs) : SameLetter(cs[i], ct[i])

\* for each sample, the samples that are not blank and name the same place
Variants ==
    [s \in NameSamples |-> {t \in NameSamples : Core(t) # << >> /\ SamePlace(t, s)}]

\* C16: when a result is written back for the text of the search field,
\* every name that differs from that text only in letter case and in
\* leading or trailing whitespace derives, at lookup, the key under which
\* the geocode was just stored, so that its lookup returns that geocode;
\* the key is geo:: followed by the trimmed, lowercased name, and the name
\* inside a key is its own normal form.
C16_GeoKeyNormalized ==
    [][(lastOp'.op = "on_fetch_done" \/ IsHit(lastOp')) =>
        /\ \A t \in Variants[city_edit'] :
              LET key == GeoKey(strip(t))
                  ct == Core(t)
              IN  /\ key = GeoKey(strip(city_edit'))
                  /\ key \in DOMAIN cache'
                  /\ cache'[key] = [ts |-> now', data |-> current_geo']
                  /\ get_cached(cache', now', key, GeoTtlMinutes) = current_geo'
                  /\ key[2] = [i \in 1..Len(ct) |-> IF ct[i] = "A" THEN "a" ELSE ct[i]]
        /\ \A k \in DOMAIN cache' :
              k[1] = "geo" => GeoKey(strip(k[2])) = k]_vars

\* a name typed with a leading space and a capital letter was served from
\* the entry stored under the trimmed, lowercased name
C16_Witness ==
    /\ IsHit(lastOp)
    /\ city_edit = <<" ", "A">>
    /\ {k \in DOMAIN cache : k[1] = "geo"} = {<<"geo", <<"a">>>>}
    /\ current_geo = GeoA

\* the least and the greatest cache_ttl_minutes of the settings dialog, and
\* a value above the geocode ttl
ExpiryTtls == {5, 60, GeoTtlMinutes + 60}

\* C17: the geocode lookup uses 1440 minutes and the air-quality lookup 60
\* minutes for every cache_ttl_minutes and with or without force_refresh;
\* only the forecast lookup uses cache_ttl_minutes, and no limit when the
\* refresh is forced.  A fetch_and_render whose geocode entry is older than
\* 1440 minutes starts a FetchWorker even when forced, and so does one whose
\* air-quality entry is older than 60 minutes with show_aqi on, even when
\* the forecast entry is fresh.
C17_ExpiryPerCategory ==
    [][(IsFetch(lastOp') /\ TruthyStr(strip(city_edit'))) =>
        LET gk == GeoKey(strip(city_edit'))
            st == settings'
            geoFresh == Fresh(gk, 1440)
            geo == IF geoFresh THEN cache[gk].data ELSE None
            wk == WxKey(geo, st.units)
            ak == AqiKey(geo)
        IN  /\ \A ttl \in ExpiryTtls, f \in BOOLEAN :
                  LET found == Lookup(city_edit', [st EXCEPT !.cache_ttl_minutes = ttl], f)
                  IN  /\ found[1] = geo
                      /\ found[2] = IF /\ geoFresh
                                       /\ wk \in DOMAIN cache
                                       /\ (f \/ ttl = 0 \/ Age(wk) <= ttl * 60)
                                    THEN cache[wk].data ELSE None
                      /\ found[3] = IF geoFresh /\ st.show_aqi /\ Fresh(ak, 60)
                                    THEN cache[ak].data ELSE None
            /\ (gk \in DOMAIN cache /\ ~geoFresh) =>
                  (IsDispatch(lastOp') /\ nextId \in DOMAIN workers')
            /\ (geoFresh /\ st.show_aqi /\ ak \in DOMAIN cache /\ ~Fresh(ak, 60)) =>
                  (IsDispatch(lastOp') /\ nextId \in DOMAIN workers')]_vars

\* a FetchWorker was started for an air-quality entry older than 60 minutes
\* while the geocode and the forecast entry were fresh
C17_Witness ==
    /\ IsDispatch(lastOp)
    /\ settings.show_aqi
    /\ Fresh(GeoKey(lastOp.city), GeoTtlMinutes)
    /\ LET geo == cache[GeoKey(lastOp.city)].data IN
       /\ Fresh(WxKey(geo, settings.units), settings.cache_ttl_minutes)
       /\ AqiKey(geo) \in DOMAIN cache
       /\ Age(AqiKey(geo)) > AqiTtlMinutes * 60

----------------------------------------------------------------------------
(* Claims about failing file writes *)

\* C18 (as claimed): when a write of the cache file or of the history file
\* fails during the write-back of a fetched or cached result, the result
\* is still delivered: current_city, current_geo and current_weather are
\* set to it.
C18_SnapshotSurvivesWriteError ==
    [][lastOp'.op = "write_failed" =>
        /\ current_city' = strip(city_edit')
        /\ current_geo' = lastOp'.geo
        /\ current_weather' = lastOp'.wx]_vars

----------------------------------------------------------------------------
(* Claims about the coordinates in the keys *)

\* the forecast entries and the coordinates they were stored for
StoredAt == {cache[k].data : k \in {j \in DOMAIN cache : j[1] = "wx"}}

\* x and y have the same sign and the same digits up to the fourth decimal
SameTo4Decimals(x, y) == (x < 0) = (y < 0) /\ Abs(x) \div 10 = Abs(y) \div 10

\* x and y have the same sign and the same nearest multiple of 1e-4
SameRounded(x, y) ==
    /\ (x < 0) = (y < 0)
    /\ \E m \in {Abs(x) \div 10, Abs(x) \div 10 + 1} :
          /\ 10 * m - 5 <= Abs(x) /\ Abs(x) < 10 * m + 5
          /\ 10 * m - 5 <= Abs(y) /\ Abs(y) < 10 * m + 5

\* C21 (as claimed): a lookup for coordinates that differ from the
\* coordinates of a stored result only after the fourth decimal place finds
\* the forecast and the air-quality entry of that result.
C21_AliasBeyondFourthDecimal ==
    lastOp.op = "lookup_at" =>
        \A d \in StoredAt :
            (SameTo4Decimals(d.lat, lastOp.lat) /\ SameTo4Decimals(d.lon, lastOp.lon)) =>
                (ret.wx # None /\ ret.aqi # None)

\* C21 (amended): a lookup finds the forecast and the air-quality entry
\* of a stored result exactly when its latitude and its longitude have the
\* sign and the nearest multiple of 1e-4 degree of the stored ones, and it
\* then returns the entry stored last under those rounded coordinates.
C21_AliasWhenRoundedEqual ==
    lastOp.op = "lookup_at" =>
        LET same == {d \in StoredAt : /\ SameRounded(d.lat, lastOp.lat)
                                      /\ SameRounded(d.lon, lastOp.lon)}
        IN  /\ (ret.wx # None) = (same # {})
            /\ (ret.aqi # None) = (same # {})
            /\ ret.wx # None => (ret.wx \in same /\ Cardinality(same) = 1)
            /\ ret.aqi # None => (ret.aqi.lat = ret.wx.lat /\ ret.aqi.lon = ret.wx.lon)

\* a lookup found the entry of a result whose latitude differs in the
\* fourth decimal place, and whose longitude does too
C21_Witness ==
    /\ lastOp.op = "lookup_at"
    /\ lastOp.lat = 3568917
    /\ lastOp.lon = 5138897
    /\ ret.wx # None
    /\ ret.wx.lat = 3568922
    /\ ret.wx.lon = 5138903
    /\ ret.aqi # None

----------------------------------------------------------------------------
(* Claims about what a cache hit serves and writes *)

\* C22 (as claimed): with cache_ttl_minutes = T > 0, a forecast delivered
\* from the cache by a fetch_and_render that is not forced was obtained
\* from the service at most T minutes before, and a delivered air-quality
\* value at most 60 minutes before.
C22_ServedWithinTtl ==
    (IsHit(lastOp) /\ ~lastOp.force /\ settings.cache_ttl_minutes > 0) =>
        /\ now - current_weather.at <= settings.cache_ttl_minutes * 60
        /\ Truthy(current_aqi) => now - current_aqi.at <= AqiTtlMinutes * 60

\* C23 (as claimed): a fetch_and_render served from the cache leaves every
\* cache entry, payload and timestamp, and the cache file as they were.
C23_HitLeavesCache ==
    [][IsHit(lastOp') => (cache' = cache /\ cacheFile' = cacheFile)]_vars

----------------------------------------------------------------------------
(* Claims about the run of a FetchWorker *)

\* C24: in one fetch the geocode request comes first; the forecast request
\* is made only after the geocode returned a match and with the coordinates
\* of that match and the units of the dispatch; the air-quality request is
\* made only after the forecast succeeded and only when show_aqi was true
\* at the dispatch; after a failed geocode or forecast step the worker
\* makes no further request.
C24_OrderOfCalls ==
    [][lastOp'.op = "run" =>
        LET id == lastOp'.id
            w == workers[id]
        IN  /\ lastOp'.call = "geo" => (w.geo = None /\ w.wx = None)
            /\ (lastOp'.call = "geo" /\ ~lastOp'.failed) =>
                  /\ id \in DOMAIN workers'
                  /\ workers'[id].pc = "wx"
                  /\ workers'[id].geo \in {GeoA, GeoB}
            /\ lastOp'.call = "wx" => (w.geo # None /\ w.wx = None)
            /\ (lastOp'.call = "wx" /\ ~lastOp'.failed /\ w.show_aqi) =>
                  /\ id \in DOMAIN workers'
                  /\ workers'[id].pc = "aqi"
                  /\ workers'[id].wx.lat = w.geo.lat
                  /\ workers'[id].wx.lon = w.geo.lon
                  /\ workers'[id].wx.units = w.units
            /\ (lastOp'.call = "wx" /\ ~lastOp'.failed /\ ~w.show_aqi) =>
                  /\ id \notin DOMAIN workers'
                  /\ queue'[Len(queue) + 1].sig = "done"
                  /\ queue'[Len(queue) + 1].wx.lat = w.geo.lat
                  /\ queue'[Len(queue) + 1].wx.units = w.units
            /\ lastOp'.call = "aqi" => (w.geo # None /\ w.wx # None /\ w.show_aqi)
            /\ (lastOp'.call \in {"geo", "wx"} /\ lastOp'.failed) =>
                  id \notin DOMAIN workers']_vars

\* the air-quality request of a fetch dispatched with show_aqi on was made
\* after show_aqi had been switched off in the settings
C24_Witness ==
    /\ lastOp.op = "run"
    /\ lastOp.call = "aqi"
    /\ ~settings.show_aqi

\* the step queues, for worker id, one done or failed signal followed by
\* the thread's finished signal, and nothing else
EmitsOnce(id) ==
    /\ Len(queue') = Len(queue) + 2
    /\ SubSeq(queue', 1, Len(queue)) = queue
    /\ queue'[Len(queue) + 1].sig \in {"done", "failed"}
    /\ queue'[Len(queue) + 1].id = id
    /\ queue'[Len(queue) + 2] = [sig |-> "finished", id |-> id]

\* C25: every dispatched FetchWorker ends by emitting exactly one of done
\* and failed (a worker is created once under a new number, leaves only by
\* queueing one such signal, and no signal is queued otherwise), every
\* dispatched worker eventually ends, and after its signals are handled
\* the search button is enabled.
C25_EndsExactlyOnce ==
    /\ [][/\ \A id \in DOMAIN workers \ DOMAIN workers' : EmitsOnce(id)
          /\ Cardinality(DOMAIN workers \ DOMAIN workers') <= 1
          /\ DOMAIN workers \subseteq DOMAIN workers' => Len(queue') <= Len(queue)
          /\ \A id \in DOMAIN workers' \ DOMAIN workers :
                id = nextId /\ nextId' = nextId + 1
          /\ lastOp'.op \in {"on_fetch_done", "on_fetch_failed", "on_worker_finished"}
                => btn_search']_vars
    /\ \A id \in 0..(MaxFetches - 1) :
          (id \in DOMAIN workers) ~>
              (/\ lastOp.op = "on_worker_finished"
               /\ lastOp.id = id
               /\ id \notin DOMAIN workers
               /\ btn_search)

\* two workers were dispatched, both have ended and all their signals are
\* handled
C25_Witness ==
    /\ nextId = 2
    /\ workers = NoWorkers
    /\ queue = << >>
    /\ lastOp.op = "on_worker_finished"
    /\ lastOp.id = 1
    /\ btn_search

\* C26: a refresh fetches the place of the snapshot on display, whatever
\* text the search field holds.
C26_RefreshTargetsDisplayed ==
    [][RefreshCurrent =>
          /\ IsFetch(lastOp')
          /\ lastOp'.outcome # "blank"
          /\ lower(lastOp'.city) = lower(strip(current_city))]_vars

\* C27: add_history and clear_history leave the favourites and the cache
\* as they were, add_favorite and remove_favorite leave the history and the
\* cache as they were, set_cached leaves the history and the favourites as
\* they were, each leaving the files of the others untouched as well, and
\* clear_history leaves the history empty.
C27_ListsAndCacheIndependent ==
    [][/\ lastOp'.op \in {"add_history", "clear_history"} =>
             /\ settings' = settings
             /\ settingsFile' = settingsFile
             /\ cache' = cache
             /\ cacheFile' = cacheFile
       /\ lastOp'.op = "clear_history" => history' = << >>
       /\ lastOp'.op \in {"add_favorite", "remove_favorite"} =>
             /\ history' = history
             /\ historyFile' = historyFile
             /\ cache' = cache
             /\ cacheFile' = cacheFile
       /\ lastOp'.op = "set_cached" =>
             /\ history' = history
             /\ historyFile' = historyFile
             /\ settings' = settings
             /\ settingsFile' = settingsFile]_vars

\* the history was cleared while there were favourites and cached entries
C27_Witness ==
    /\ lastOp.op = "clear_history"
    /\ history = << >>
    /\ settings.favorites # << >>
    /\ cache # NoCache

====
